---- MODULE Spec2Model ----
(***************************************************************************)
(* Ticket routing engine: ingest API (app.py), Redis broker (broker.py),   *)
(* background worker (worker.py) and the pop-next consumer endpoint.       *)
(* Every Redis command is one atomic step; a handler is the sequence of    *)
(* its commands, so handlers of different requests and workers interleave  *)
(* between commands exactly as they do against a shared Redis server.      *)
(* Urgency scores are fixed-point integers in units of 1e-5 (1.0 = 100000).*)
(***************************************************************************)
EXTENDS Integers, Sequences, FiniteSets, TLC

(* ---------------- bounds of the model ---------------- *)
NumRequests == 2
NumWorkers == 2
NumConsumers == 2
NumSuppliedIds == 1
MaxFloodTickets == 12
MaxScorerTickets == 4
MaxRecords == 5
MaxAllows == 3
MaxSelections == 10
MaxDedupCalls == 12
MaxEnqueues == 5
MaxDequeues == 6

(* ---------------- program constants ---------------- *)
max_retries == 10
ONE == 100000
HALF == 50000
URGENCY_WEBHOOK_THRESHOLD == 80000
ROUND_UNIT == 10

Requests == 1..NumRequests
Workers == 1..NumWorkers
Consumers == 1..NumConsumers

\* ticket ids a client may supply in payload.ticket_id
SuppliedIds == 1..NumSuppliedIds
\* payload.ticket_id absent
NoId == 0

Categories == {"Billing", "Technical", "Legal"}

\* A ticket text, by what the baseline classifier can see of it: whether it
\* is blank and which keyword groups of CATEGORY_RULES / URGENCY_PATTERN occur.
LegalInvoiceText ==
    [blank |-> FALSE, legal |-> TRUE, billing |-> TRUE, technical |-> FALSE, urgent |-> FALSE]
UrgentOutageText ==
    [blank |-> FALSE, legal |-> FALSE, billing |-> FALSE, technical |-> TRUE, urgent |-> TRUE]
Texts == {LegalInvoiceText, UrgentOutageText}
\* the empty string
NoText ==
    [blank |-> TRUE, legal |-> FALSE, billing |-> FALSE, technical |-> FALSE, urgent |-> FALSE]

\* classifier.classify_category: Legal > Billing > Technical, default Technical
classify_category(text) ==
    IF text.blank THEN "Technical"
    ELSE IF text.legal THEN "Legal"
    ELSE IF text.billing THEN "Billing"
    ELSE "Technical"

\* classifier.get_urgency: 0 or 1
get_urgency(text) ==
    IF text.blank THEN 0
    ELSE IF text.urgent THEN 1 ELSE 0

\* What predict_category / predict_urgency_score may return for a text:
\* any category and a score in [0, 1]; "raise" stands for an exception.
ScorerScores == {49996, 95004}
ScorerOutcomes ==
    {[raise |-> FALSE, category |-> "Technical", s |-> sc] : sc \in ScorerScores}
        \cup {[raise |-> TRUE, category |-> "Technical", s |-> 0]}

Min(a, b) == IF a < b THEN a ELSE b
Max(a, b) == IF a > b THEN a ELSE b

\* s = max(0.0, min(1.0, s))
Clamp(s) == Max(0, Min(ONE, s))

\* round(s, 4): nearest multiple of 1e-4, ties to even
round4(s) ==
    LET q == s \div ROUND_UNIT
        rem == s % ROUND_UNIT
    IN  IF 2 * rem < ROUND_UNIT THEN q * ROUND_UNIT
        ELSE IF 2 * rem > ROUND_UNIT THEN (q + 1) * ROUND_UNIT
        ELSE IF q % 2 = 0 THEN q * ROUND_UNIT ELSE (q + 1) * ROUND_UNIT

\* worker._urgency_label
_urgency_label(s) == IF s >= HALF THEN "high" ELSE "low"

NoVal == "none"
Absent == -1

\* what get_status returns for a key that does not exist (None)
NoStatus == [status |-> NoVal, category |-> NoVal, urgency_score |-> Absent, urgency_label |-> NoVal]
PendingRecord == [status |-> "pending", category |-> NoVal, urgency_score |-> Absent, urgency_label |-> NoVal]
ProcessingRecord == [status |-> "processing", category |-> NoVal, urgency_score |-> Absent, urgency_label |-> NoVal]
CompletedRecord(category, s) ==
    [status |-> "completed", category |-> category, urgency_score |-> round4(s), urgency_label |-> _urgency_label(s)]
DefensiveRecord ==
    [status |-> "completed", category |-> "Technical", urgency_score |-> 0, urgency_label |-> "low"]

(* ---------------- deduplication.py ---------------- *)

FLOOD_COUNT == 10
SIMILARITY_THRESHOLD == 90
WINDOW_SECONDS == 300

\* model.encode(text, normalize_embeddings=True): a unit vector, here the
\* direction it points in; texts on the same subject point the same way
encode(text) == IF text.legal THEN 0 ELSE IF text.technical THEN 4 ELSE 8

\* np.dot of two unit vectors, in hundredths, by the angle between them
dot(a, b) ==
    LET d == IF a < b THEN b - a ELSE a - b
    IN  IF d = 0 THEN 100 ELSE IF d = 1 THEN 95 ELSE IF d = 2 THEN 90 ELSE 10

\* while recent_tickets and recent_tickets[0]["time"] < now - 5 min: popleft()
RECURSIVE evict(_, _)
evict(window, now) ==
    IF window # <<>> /\ window[1].time < now - WINDOW_SECONDS
    THEN evict(Tail(window), now)
    ELSE window

\* is_flash_flood(ticket_id, text) called at time now with recent_tickets =
\* window: the value returned and recent_tickets after the call
is_flash_flood_no_evict(window, ticket_id, text, now) ==
    LET embedding == encode(text)
        similar_count ==
            Cardinality({i \in 1..Len(window) : dot(embedding, window[i].embedding) > SIMILARITY_THRESHOLD})
    IN  [flood |-> similar_count >= FLOOD_COUNT,
         window |-> Append(window, [id |-> ticket_id, embedding |-> embedding, time |-> now])]
is_flash_flood(window, ticket_id, text, now) ==
    LET embedding == encode(text)
        kept == evict(window, now)
        similar_count ==
            Cardinality({i \in 1..Len(kept) : dot(embedding, kept[i].embedding) > SIMILARITY_THRESHOLD})
    IN  [flood |-> similar_count >= FLOOD_COUNT,
         window |-> Append(kept, [id |-> ticket_id, embedding |-> embedding, time |-> now])]

(* ---------------- circuit_breaker.py ---------------- *)
LATENCY_LIMIT == 500
FAILURE_LIMIT == 3
OPEN_SECONDS == 60

\* CircuitBreaker.__init__ (last_failure_time None)
NewBreaker == [state |-> "CLOSED", failure_count |-> 0, last_failure_time |-> Absent]

\* CircuitBreaker.record(latency) called at time now: the breaker afterwards
record_never_opens(b, latency, now) ==
    IF latency > LATENCY_LIMIT
    THEN [b EXCEPT !.failure_count = @ + 1, !.last_failure_time = now]
    ELSE [b EXCEPT !.state = IF @ = "HALF_OPEN" THEN "CLOSED" ELSE @, !.failure_count = 0]
record(b, latency, now) ==
    LET b1 == IF latency > LATENCY_LIMIT
              THEN [b EXCEPT !.failure_count = @ + 1, !.last_failure_time = now]
              ELSE [b EXCEPT !.state = IF @ = "HALF_OPEN" THEN "CLOSED" ELSE @,
                             !.failure_count = 0]
    IN  IF b1.failure_count >= FAILURE_LIMIT THEN [b1 EXCEPT !.state = "OPEN"] ELSE b1

\* CircuitBreaker.allow() called at time now: what it returns and the breaker afterwards
allow_denies_half_open(b, now) ==
    IF b.state = "OPEN"
    THEN IF now - b.last_failure_time > OPEN_SECONDS
         THEN [ret |-> TRUE, breaker |-> [b EXCEPT !.state = "HALF_OPEN"]]
         ELSE [ret |-> FALSE, breaker |-> b]
    ELSE [ret |-> b.state = "CLOSED", breaker |-> b]
allow(b, now) ==
    IF b.state = "OPEN"
    THEN IF now - b.last_failure_time > OPEN_SECONDS
         THEN [ret |-> TRUE, breaker |-> [b EXCEPT !.state = "HALF_OPEN"]]
         ELSE [ret |-> FALSE, breaker |-> b]
    ELSE [ret |-> TRUE, breaker |-> b]

(* ---------------- agents.py ---------------- *)
\* the registry, in insertion order
AgentNames == <<"Agent1", "Agent2">>
NoAgent == "None"
capacity(a) == IF a = "Agent1" THEN 5 ELSE 4
\* skills, in tenths
skills(a, category) ==
    IF a = "Agent1"
    THEN (IF category = "Technical" THEN 9 ELSE IF category = "Billing" THEN 1 ELSE 0)
    ELSE (IF category = "Billing" THEN 8 ELSE 2)

\* data["load"] >= data["capacity"]: the agent is skipped
at_capacity_off_by_one(a, load) == load[a] > capacity(a)
at_capacity(a, load) == load[a] >= capacity(a)

\* score = 0.6 * skill_match + 0.4 * availability, as an exact fraction
agent_score(a, load, category) ==
    [num |-> 6 * skills(a, category) * capacity(a) + 40 * (capacity(a) - load[a]),
     den |-> 100 * capacity(a)]
\* best_score = -1
NoScore == [num |-> 0 - 1, den |-> 1]

\* score > best_score
better_or_equal(x, y) == x.num * y.den >= y.num * x.den
better(x, y) == x.num * y.den > y.num * x.den

\* the loop of select_agent over the first k agents: best_agent and best_score
RECURSIVE select_loop(_, _, _)
select_loop(k, load, category) ==
    IF k = 0 THEN [agent |-> NoAgent, score |-> NoScore]
    ELSE LET prev == select_loop(k - 1, load, category)
             a == AgentNames[k]
             sc == agent_score(a, load, category)
         IN  IF at_capacity(a, load) THEN prev
             ELSE IF better(sc, prev.score) THEN [agent |-> a, score |-> sc]
             ELSE prev

select_agent(load, category) == select_loop(Len(AgentNames), load, category).agent

NoMsg == [ticket_id |-> NoId, text |-> NoText]
NotFound == [status |-> "404", category |-> NoVal, urgency_score |-> Absent, urgency_label |-> NoVal]

VARIABLES
    status,           \* mvr:status:<id> keys: id -> record, for the keys that exist
    queue,            \* mvr:ticket_queue list, index 1 = left end
    all_ids,          \* mvr:all_ids set
    ready,            \* mvr:ready sorted set: member id -> score
    submit_lock,      \* mvr:lock:submit key exists
    processing_lock,  \* ids whose mvr:lock:processing:<id> key exists
    notified,         \* ids for which notify_high_urgency fired
    generated,        \* number of ids generate_ticket_id has handed out
    reqPc, attempt, reqTid, reqText, outcome, effects,   \* one create_ticket call per request
    wPc, wMsg, wS,                                       \* worker main loop / process_ticket
    cPc, cTid, cResult,                                  \* one GET /tickets/next per consumer
    breaker,          \* circuit_breaker.breaker: state, failure_count, last_failure_time
    clock,            \* time.time() / datetime.utcnow(), in seconds
    allowed,          \* what the breaker.allow() calls returned so far, oldest first
    latency_log,      \* latencies (ms) of the Scorer calls made so far, oldest first
    agents,           \* agents registry: name -> load
    selection,        \* the last select_agent call: its category and what it returned
    selected,         \* what the select_agent calls returned so far, oldest first
    recent_tickets,   \* deduplication.recent_tickets, oldest first
    dedup_log,        \* every is_flash_flood call so far: embedding, time, result
    enq_log,          \* messages passed to enqueue_sync so far, oldest first
    deq_log,          \* what the dequeue_sync calls returned so far (NoMsg for None)
    scorer_log,       \* the Scorer calls made so far: ticket, text, whether it raised
    lock_owner        \* for each ticket, the worker whose SET NX last created its lock key

brokerVars == <<status, queue, all_ids, ready, submit_lock, processing_lock, notified>>
idVars == <<generated>>
reqVars == <<reqPc, attempt, reqTid, reqText, outcome, effects>>
workerVars == <<wPc, wMsg, wS>>
consumerVars == <<cPc, cTid, cResult>>
breakerVars == <<breaker, clock, allowed, latency_log>>
agentVars == <<agents, selection, selected>>
dedupVars == <<recent_tickets, dedup_log>>
fifoVars == <<enq_log, deq_log>>
obsVars == <<scorer_log, lock_owner>>
libVars == <<breakerVars, agentVars, dedupVars, fifoVars, obsVars>>
vars == <<brokerVars, idVars, reqVars, workerVars, consumerVars, libVars>>

NoEffects == [lock |-> 0, status |-> 0, ids |-> 0, enq |-> 0]

InitBroker ==
    /\ status = <<>>
    /\ queue = <<>>
    /\ all_ids = {}
    /\ ready = <<>>
    /\ submit_lock = FALSE
    /\ processing_lock = {}
    /\ notified = {}
    /\ generated = 0
    /\ reqPc = [r \in Requests |-> "acquire"]
    /\ attempt = [r \in Requests |-> 0]
    /\ reqTid = [r \in Requests |-> NoId]
    /\ reqText = [r \in Requests |-> NoText]
    /\ outcome = [r \in Requests |-> NoVal]
    /\ effects = [r \in Requests |-> NoEffects]
    /\ wPc = [w \in Workers |-> "idle"]
    /\ wMsg = [w \in Workers |-> NoMsg]
    /\ wS = [w \in Workers |-> 0]
    /\ cPc = [c \in Consumers |-> "zrevrange"]
    /\ cTid = [c \in Consumers |-> NoId]
    /\ cResult = [c \in Consumers |-> NoStatus]

\* nothing called yet
NoSelection == [category |-> NoVal, agent |-> NoAgent]
InitLib ==
    /\ breaker = NewBreaker
    /\ clock = 0
    /\ allowed = <<>>
    /\ latency_log = <<>>
    /\ selection = NoSelection
    /\ selected = <<>>
    /\ recent_tickets = <<>>
    /\ dedup_log = <<>>
    /\ enq_log = <<>>
    /\ deq_log = <<>>
    /\ scorer_log = <<>>
    /\ lock_owner = <<>>

\* the registry as shipped: every load 0
ShippedRegistry == [a \in {AgentNames[i] : i \in 1..Len(AgentNames)} |-> 0]

Init ==
    /\ InitBroker
    /\ InitLib
    /\ agents = ShippedRegistry

(* ======================= broker primitives ======================= *)

\* a SET without NX: granted whether or not the key exists
acquire_submit_lock_async_no_nx == TRUE
acquire_processing_lock_no_nx(t) == TRUE

\* SET key "1" NX EX ttl: succeeds iff the key does not exist
acquire_submit_lock_async == ~submit_lock
acquire_processing_lock(t) == t \notin processing_lock

\* LPUSH: new element at the left end
lpush_right_end(q, m) == Append(q, m)
lpush(q, m) == <<m>> \o q
\* BRPOP: element at the right end
brpop_value(q) == q[Len(q)]
brpop_rest(q) == SubSeq(q, 1, Len(q) - 1)

\* generate_ticket_id(): uuid4-based, distinct from every id seen so far
generate_ticket_id == NumSuppliedIds + generated + 1

\* SET key value: upsert; ZADD key score member: upsert
set_key(f, k, v) == (k :> v) @@ f
\* ZREM key member
zrem(f, k) == [x \in DOMAIN f \ {k} |-> f[x]]
\* GET key
get_status(t) == IF t \in DOMAIN status THEN status[t] ELSE NoStatus

ReadyMembers == DOMAIN ready

\* ZREVRANGE key 0 0: member of highest score; equal scores are ordered by
\* member, descending
zrevrange_first ==
    CHOOSE t \in ReadyMembers :
        \A u \in ReadyMembers : ready[u] < ready[t] \/ (ready[u] = ready[t] /\ u <= t)

(* ======================= create_ticket (app.py) ======================= *)

\* acquire_submit_lock_async(): granted -> read the payload, enter the try block
create_ticket_acquire(r) ==
    /\ reqPc[r] = "acquire"
    /\ attempt[r] < max_retries
    /\ acquire_submit_lock_async
    /\ submit_lock' = TRUE
    /\ \E tid \in SuppliedIds \cup {NoId}, text \in Texts :
          /\ reqTid' = [reqTid EXCEPT ![r] = IF tid # NoId THEN tid ELSE generate_ticket_id]
          /\ generated' = IF tid # NoId THEN generated ELSE generated + 1
          /\ reqText' = [reqText EXCEPT ![r] = text]
    /\ reqPc' = [reqPc EXCEPT ![r] = "set_status"]
    /\ effects' = [effects EXCEPT ![r].lock = @ + 1]
    /\ UNCHANGED <<status, queue, all_ids, ready, processing_lock, notified, attempt, outcome>>
    /\ UNCHANGED <<workerVars, consumerVars>>
    /\ UNCHANGED libVars

\* acquire denied but the continue is missing: control falls into the try block
create_ticket_denied_fallthrough(r) ==
    /\ reqPc[r] = "acquire"
    /\ attempt[r] < max_retries
    /\ ~acquire_submit_lock_async
    /\ \E tid \in SuppliedIds \cup {NoId}, text \in Texts :
          /\ reqTid' = [reqTid EXCEPT ![r] = IF tid # NoId THEN tid ELSE generate_ticket_id]
          /\ generated' = IF tid # NoId THEN generated ELSE generated + 1
          /\ reqText' = [reqText EXCEPT ![r] = text]
    /\ reqPc' = [reqPc EXCEPT ![r] = "set_status"]
    /\ UNCHANGED <<brokerVars, attempt, outcome, effects, workerVars, consumerVars>>
    /\ UNCHANGED libVars

\* acquire denied: sleep, continue with the next attempt
create_ticket_denied(r) ==
    /\ reqPc[r] = "acquire"
    /\ attempt[r] < max_retries
    /\ ~acquire_submit_lock_async
    /\ attempt' = [attempt EXCEPT ![r] = @ + 1]
    /\ UNCHANGED <<brokerVars, reqPc, reqTid, reqText, outcome, effects, workerVars, consumerVars, idVars>>
    /\ UNCHANGED libVars

\* range(max_retries) exhausted: raise HTTPException(503)
create_ticket_overload(r) ==
    /\ reqPc[r] = "acquire"
    /\ attempt[r] >= max_retries
    /\ reqPc' = [reqPc EXCEPT ![r] = "done"]
    /\ outcome' = [outcome EXCEPT ![r] = "503"]
    /\ UNCHANGED <<brokerVars, attempt, reqTid, reqText, effects, workerVars, consumerVars, idVars>>
    /\ UNCHANGED libVars

\* the pending status is not written at this point of the handler
create_ticket_set_status_skipped(r) ==
    /\ reqPc[r] = "set_status"
    /\ reqPc' = [reqPc EXCEPT ![r] = "add_to_all_ids"]
    /\ UNCHANGED <<brokerVars, attempt, reqTid, reqText, outcome, effects, workerVars, consumerVars, idVars>>
    /\ UNCHANGED libVars

\* set_status_async(ticket_id, {status: pending, ...})
create_ticket_set_status(r) ==
    /\ reqPc[r] = "set_status"
    /\ status' = set_key(status, reqTid[r], PendingRecord)
    /\ reqPc' = [reqPc EXCEPT ![r] = "add_to_all_ids"]
    /\ effects' = [effects EXCEPT ![r].status = @ + 1]
    /\ UNCHANGED <<queue, all_ids, ready, submit_lock, processing_lock, notified>>
    /\ UNCHANGED <<attempt, reqTid, reqText, outcome, workerVars, consumerVars, idVars>>
    /\ UNCHANGED libVars

\* add_to_all_ids_async(ticket_id)
create_ticket_add_to_all_ids(r) ==
    /\ reqPc[r] = "add_to_all_ids"
    /\ all_ids' = all_ids \cup {reqTid[r]}
    /\ reqPc' = [reqPc EXCEPT ![r] = "enqueue"]
    /\ effects' = [effects EXCEPT ![r].ids = @ + 1]
    /\ UNCHANGED <<status, queue, ready, submit_lock, processing_lock, notified>>
    /\ UNCHANGED <<attempt, reqTid, reqText, outcome, workerVars, consumerVars, idVars>>
    /\ UNCHANGED libVars

\* enqueue_async(message); the return statement fixes the 202 response
create_ticket_enqueue(r) ==
    /\ reqPc[r] = "enqueue"
    /\ queue' = lpush(queue, [ticket_id |-> reqTid[r], text |-> reqText[r]])
    /\ reqPc' = [reqPc EXCEPT ![r] = "release"]
    /\ outcome' = [outcome EXCEPT ![r] = "202"]
    /\ effects' = [effects EXCEPT ![r].enq = @ + 1]
    /\ UNCHANGED <<status, all_ids, ready, submit_lock, processing_lock, notified>>
    /\ UNCHANGED <<attempt, reqTid, reqText, workerVars, consumerVars, idVars>>
    /\ UNCHANGED libVars

\* finally: release_submit_lock_async(); the handler's locals die with it
create_ticket_release(r) ==
    /\ reqPc[r] = "release"
    /\ submit_lock' = FALSE
    /\ reqPc' = [reqPc EXCEPT ![r] = "done"]
    /\ attempt' = [attempt EXCEPT ![r] = 0]
    /\ reqText' = [reqText EXCEPT ![r] = NoText]
    /\ UNCHANGED <<status, queue, all_ids, ready, processing_lock, notified>>
    /\ UNCHANGED <<reqTid, outcome, effects, workerVars, consumerVars, idVars>>
    /\ UNCHANGED libVars

\* the client sends its next POST /tickets once the previous one has returned
post_ticket(r) ==
    /\ reqPc[r] = "done"
    /\ reqPc' = [reqPc EXCEPT ![r] = "acquire"]
    /\ attempt' = [attempt EXCEPT ![r] = 0]
    /\ reqTid' = [reqTid EXCEPT ![r] = NoId]
    /\ outcome' = [outcome EXCEPT ![r] = NoVal]
    /\ effects' = [effects EXCEPT ![r] = NoEffects]
    /\ UNCHANGED <<brokerVars, idVars, reqText, workerVars, consumerVars>>
    /\ UNCHANGED libVars

(* ======================= worker.py ======================= *)

\* main: msg = dequeue_sync(timeout=5); a None result loops without a change
main_dequeue(w) ==
    /\ wPc[w] = "idle"
    /\ queue # <<>>
    /\ wMsg' = [wMsg EXCEPT ![w] = brpop_value(queue)]
    /\ queue' = brpop_rest(queue)
    /\ wPc' = [wPc EXCEPT ![w] = "acquire"]
    /\ UNCHANGED <<status, all_ids, ready, submit_lock, processing_lock, notified>>
    /\ UNCHANGED <<wS, reqVars, consumerVars, idVars>>
    /\ UNCHANGED libVars

\* process_ticket: acquire_processing_lock(ticket_id); denied -> warning, return
acquire(w) ==
    /\ wPc[w] = "acquire"
    /\ IF acquire_processing_lock(wMsg[w].ticket_id)
       THEN /\ processing_lock' = processing_lock \cup {wMsg[w].ticket_id}
            /\ wPc' = [wPc EXCEPT ![w] = "set_processing"]
            /\ wMsg' = wMsg
       ELSE /\ processing_lock' = processing_lock
            /\ wPc' = [wPc EXCEPT ![w] = "idle"]
            /\ wMsg' = [wMsg EXCEPT ![w] = NoMsg]
    /\ UNCHANGED <<status, queue, all_ids, ready, submit_lock, notified>>
    /\ UNCHANGED <<wS, reqVars, consumerVars, idVars>>

\* the same step with the denied branch deleting the key
process_ticket_acquire_denied_releases(w) ==
    /\ wPc[w] = "acquire"
    /\ IF acquire_processing_lock(wMsg[w].ticket_id)
       THEN /\ processing_lock' = processing_lock \cup {wMsg[w].ticket_id}
            /\ wPc' = [wPc EXCEPT ![w] = "set_processing"]
            /\ wMsg' = wMsg
       ELSE /\ processing_lock' = processing_lock \ {wMsg[w].ticket_id}
            /\ wPc' = [wPc EXCEPT ![w] = "idle"]
            /\ wMsg' = [wMsg EXCEPT ![w] = NoMsg]
    /\ UNCHANGED <<status, queue, all_ids, ready, submit_lock, notified>>
    /\ UNCHANGED <<wS, reqVars, consumerVars, idVars, libVars>>
process_ticket_acquire(w) ==
    /\ acquire(w)
    /\ UNCHANGED libVars

\* set_status_sync(ticket_id, {status: processing, ...})
process_ticket_set_processing(w) ==
    /\ wPc[w] = "set_processing"
    /\ status' = set_key(status, wMsg[w].ticket_id, ProcessingRecord)
    /\ wPc' = [wPc EXCEPT ![w] = "set_completed"]
    /\ UNCHANGED <<queue, all_ids, ready, submit_lock, processing_lock, notified>>
    /\ UNCHANGED <<wMsg, wS, reqVars, consumerVars, idVars>>
    /\ UNCHANGED libVars

\* the classification stage without the except branch
classification_no_fallback(text, o) == [category |-> o.category, s |-> Clamp(o.s)]
\* the classification stage: predict_category / predict_urgency_score and the
\* clamp, or on an exception the baseline classify_category / get_urgency
classification(text, o) ==
    IF o.raise
    THEN [category |-> classify_category(text), s |-> get_urgency(text) * ONE]
    ELSE [category |-> o.category, s |-> Clamp(o.s)]

\* classification, then set_status_sync(ticket_id, {status: completed, ...});
\* the breaker, the dedup window and the agent registry are not touched
set_completed_with(w, o) ==
    /\ wPc[w] = "set_completed"
    /\ LET c == classification(wMsg[w].text, o) IN
          /\ wS' = [wS EXCEPT ![w] = c.s]
          /\ status' = set_key(status, wMsg[w].ticket_id, CompletedRecord(c.category, c.s))
    /\ wPc' = [wPc EXCEPT ![w] = "add_to_ready"]
    /\ UNCHANGED <<queue, all_ids, ready, submit_lock, processing_lock, notified>>
    /\ UNCHANGED <<wMsg, reqVars, consumerVars, idVars>>

set_completed(w) == \E o \in ScorerOutcomes : set_completed_with(w, o)

process_ticket_set_completed(w) ==
    /\ set_completed(w)
    /\ UNCHANGED libVars

\* the score add_to_ready_queue_sync is called with
ready_score(w) == wS[w]

\* add_to_ready_queue_sync(ticket_id, s): ZADD upserts the member's score;
\* then notify_high_urgency(ticket_id, s, category, text), which touches no
\* broker state and fires when s > threshold
process_ticket_add_to_ready(w) ==
    /\ wPc[w] = "add_to_ready"
    /\ ready' = set_key(ready, wMsg[w].ticket_id, ready_score(w))
    /\ notified' = IF wS[w] > URGENCY_WEBHOOK_THRESHOLD
                   THEN notified \cup {wMsg[w].ticket_id} ELSE notified
    /\ wPc' = [wPc EXCEPT ![w] = "release"]
    /\ UNCHANGED <<status, queue, all_ids, submit_lock, processing_lock>>
    /\ UNCHANGED <<wMsg, wS, reqVars, consumerVars, idVars>>
    /\ UNCHANGED libVars

\* finally: release_processing_lock(ticket_id); then back to the main loop,
\* or, when the except block raised, on to main's exception handler
process_ticket_release_keeps_key(w) ==
    /\ wPc[w] \in {"release", "release_raising"}
    /\ wPc' = [wPc EXCEPT ![w] = IF @ = "release" THEN "idle" ELSE "log_status_error"]
    /\ wMsg' = [wMsg EXCEPT ![w] = NoMsg]
    /\ wS' = [wS EXCEPT ![w] = 0]
    /\ UNCHANGED <<brokerVars, reqVars, consumerVars, idVars, libVars>>
process_ticket_release(w) ==
    /\ wPc[w] \in {"release", "release_raising"}
    /\ processing_lock' = processing_lock \ {wMsg[w].ticket_id}
    /\ wPc' = [wPc EXCEPT ![w] = IF @ = "release" THEN "idle" ELSE "log_status_error"]
    /\ wMsg' = [wMsg EXCEPT ![w] = NoMsg]
    /\ wS' = [wS EXCEPT ![w] = 0]
    /\ UNCHANGED <<status, queue, all_ids, ready, submit_lock, notified>>
    /\ UNCHANGED <<reqVars, consumerVars, idVars>>
    /\ UNCHANGED libVars

(* ---- broker transport failures inside process_ticket ---- *)

\* a broker call of the try block raises: control moves to the except block
process_ticket_raise(w) ==
    /\ wPc[w] \in {"set_processing", "set_completed", "add_to_ready"}
    /\ wPc' = [wPc EXCEPT ![w] = "defensive"]
    /\ UNCHANGED <<brokerVars, wMsg, wS, reqVars, consumerVars, idVars>>
    /\ UNCHANGED libVars

\* except: set_status_sync(ticket_id, {completed, Technical, 0.0, low})
process_ticket_defensive(w) ==
    /\ wPc[w] = "defensive"
    /\ status' = set_key(status, wMsg[w].ticket_id, DefensiveRecord)
    /\ wPc' = [wPc EXCEPT ![w] = "release"]
    /\ UNCHANGED <<queue, all_ids, ready, submit_lock, processing_lock, notified>>
    /\ UNCHANGED <<wMsg, wS, reqVars, consumerVars, idVars>>
    /\ UNCHANGED libVars

\* the set_status_sync of the except block raises too: finally still runs,
\* with that exception on its way to main
process_ticket_defensive_raise(w) ==
    /\ wPc[w] = "defensive"
    /\ wPc' = [wPc EXCEPT ![w] = "release_raising"]
    /\ UNCHANGED <<brokerVars, wMsg, wS, reqVars, consumerVars, idVars>>
    /\ UNCHANGED libVars

\* release_processing_lock raises: the key stays, the exception reaches main
process_ticket_release_raise(w) ==
    /\ wPc[w] \in {"release", "release_raising"}
    /\ wPc' = [wPc EXCEPT ![w] = "log_release_error"]
    /\ wMsg' = [wMsg EXCEPT ![w] = NoMsg]
    /\ wS' = [wS EXCEPT ![w] = 0]
    /\ UNCHANGED <<brokerVars, reqVars, consumerVars, idVars>>
    /\ UNCHANGED libVars

\* main: except Exception: logger.exception(...), and the loop goes on
main_log_exception(w) ==
    /\ wPc[w] \in {"log_status_error", "log_release_error"}
    /\ wPc' = [wPc EXCEPT ![w] = "idle"]
    /\ UNCHANGED <<brokerVars, wMsg, wS, reqVars, consumerVars, idVars>>
    /\ UNCHANGED libVars

(* ======================= GET /tickets/next ======================= *)

\* pop_next_ready_sync: results = r.zrevrange(READY_QUEUE_KEY, 0, 0);
\* empty -> None -> 404
pop_next_ready_zrevrange(c) ==
    /\ cPc[c] = "zrevrange"
    /\ IF ReadyMembers = {}
       THEN /\ cPc' = [cPc EXCEPT ![c] = "done"]
            /\ cResult' = [cResult EXCEPT ![c] = NotFound]
            /\ cTid' = cTid
       ELSE /\ cPc' = [cPc EXCEPT ![c] = "zrem"]
            /\ cTid' = [cTid EXCEPT ![c] = zrevrange_first]
            /\ cResult' = cResult
    /\ UNCHANGED <<brokerVars, reqVars, workerVars, idVars>>
    /\ UNCHANGED libVars

\* pop_next_ready_sync: r.zrem(READY_QUEUE_KEY, ticket_id)
pop_next_ready_zrem(c) ==
    /\ cPc[c] = "zrem"
    /\ ready' = zrem(ready, cTid[c])
    /\ cPc' = [cPc EXCEPT ![c] = "get_status"]
    /\ UNCHANGED <<status, queue, all_ids, submit_lock, processing_lock, notified>>
    /\ UNCHANGED <<cTid, cResult, reqVars, workerVars, idVars>>
    /\ UNCHANGED libVars

\* get_next_ready_ticket_sync: return get_status_sync(ticket_id)
get_next_ready_get_status(c) ==
    /\ cPc[c] = "get_status"
    /\ cResult' = [cResult EXCEPT ![c] =
                     IF get_status(cTid[c]) = NoStatus THEN NotFound ELSE get_status(cTid[c])]
    /\ cPc' = [cPc EXCEPT ![c] = "done"]
    /\ UNCHANGED <<brokerVars, cTid, reqVars, workerVars, idVars>>
    /\ UNCHANGED libVars

(* ======================= specifications ======================= *)

Ingest ==
    \E r \in Requests :
        \/ create_ticket_acquire(r)
        \/ create_ticket_denied(r)
        \/ create_ticket_overload(r)
        \/ create_ticket_set_status(r)
        \/ create_ticket_add_to_all_ids(r)
        \/ create_ticket_enqueue(r)
        \/ create_ticket_release(r)

Work ==
    \E w \in Workers :
        \/ main_dequeue(w)
        \/ process_ticket_acquire(w)
        \/ process_ticket_set_processing(w)
        \/ process_ticket_set_completed(w)
        \/ process_ticket_add_to_ready(w)
        \/ process_ticket_release(w)

WorkFaults ==
    \E w \in Workers :
        \/ process_ticket_raise(w)
        \/ process_ticket_defensive(w)
        \/ process_ticket_defensive_raise(w)
        \/ process_ticket_release_raise(w)
        \/ main_log_exception(w)

Consume ==
    \E c \in Consumers :
        \/ pop_next_ready_zrevrange(c)
        \/ pop_next_ready_zrem(c)
        \/ get_next_ready_get_status(c)

\* one client: it posts its next ticket when the previous request has returned,
\* so no acquire is ever denied
client_acquire(r) ==
    /\ \A q \in Requests : q < r => reqPc[q] = "done"
    /\ create_ticket_acquire(r)

IngestSeq ==
    \E r \in Requests :
        \/ client_acquire(r)
        \/ create_ticket_set_status(r)
        \/ create_ticket_add_to_all_ids(r)
        \/ create_ticket_enqueue(r)
        \/ create_ticket_release(r)

\* one client, the workers and the consumers; fault-free broker
Next == IngestSeq \/ Work \/ Consume
Spec == Init /\ [][Next]_vars

\* the same, and broker calls of a worker may raise
NextFault == Next \/ WorkFaults
SpecFault == Init /\ [][NextFault]_vars

\* one client and the workers, fault-free broker
NextLock == IngestSeq \/ Work
SpecLock == Init /\ [][NextLock]_vars

\* one client and the workers; calls of a worker may raise
NextLockFault == NextLock \/ WorkFaults
SpecLockFault == Init /\ [][NextLockFault]_vars

\* Flash flood scenario: one client posts MaxFloodTickets tickets that are
\* paraphrases of one text, without ticket ids, one after the other; one worker
\* processes them; the Scorer gives each a score above the notification threshold.
FloodText == UrgentOutageText
FloodOutcomes == {o \in ScorerOutcomes : ~o.raise /\ o.s > URGENCY_WEBHOOK_THRESHOLD}

flood_post ==
    /\ generated < MaxFloodTickets
    /\ post_ticket(1)
flood_acquire ==
    /\ create_ticket_acquire(1)
    /\ reqTid'[1] \notin SuppliedIds
    /\ reqText'[1] = FloodText
flood_set_completed ==
    /\ process_ticket_set_completed(1)
    /\ wS'[1] \in {Clamp(o.s) : o \in FloodOutcomes}

NextFlood ==
    \/ flood_post
    \/ flood_acquire
    \/ create_ticket_set_status(1)
    \/ create_ticket_add_to_all_ids(1)
    \/ create_ticket_enqueue(1)
    \/ create_ticket_release(1)
    \/ main_dequeue(1)
    \/ process_ticket_acquire(1)
    \/ process_ticket_set_processing(1)
    \/ flood_set_completed
    \/ process_ticket_add_to_ready(1)
    \/ process_ticket_release(1)
SpecFlood == Init /\ [][NextFlood]_vars

\* Slow Scorer scenario: one client posts MaxScorerTickets tickets without
\* ticket ids, one worker processes them, and each Scorer call (the try block
\* of process_ticket) takes a latency below or above the breaker's limit.
ScorerLatencies == {LATENCY_LIMIT - 400, LATENCY_LIMIT + 100}

scorer_post ==
    /\ generated < MaxScorerTickets
    /\ post_ticket(1)
scorer_acquire ==
    /\ create_ticket_acquire(1)
    /\ reqTid'[1] \notin SuppliedIds
timed_set_completed ==
    /\ \E o \in ScorerOutcomes :
          /\ set_completed_with(1, o)
          /\ scorer_log' = Append(scorer_log,
                 [ticket_id |-> wMsg[1].ticket_id, text |-> wMsg[1].text, raised |-> o.raise])
    /\ \E latency \in ScorerLatencies : latency_log' = Append(latency_log, latency)
    /\ UNCHANGED <<breaker, clock, allowed, agentVars, dedupVars, fifoVars, lock_owner>>

NextScorer ==
    \/ scorer_post
    \/ scorer_acquire
    \/ create_ticket_set_status(1)
    \/ create_ticket_add_to_all_ids(1)
    \/ create_ticket_enqueue(1)
    \/ create_ticket_release(1)
    \/ main_dequeue(1)
    \/ process_ticket_acquire(1)
    \/ process_ticket_set_processing(1)
    \/ timed_set_completed
    \/ process_ticket_add_to_ready(1)
    \/ process_ticket_release(1)
SpecScorer == Init /\ [][NextScorer]_vars

\* The circuit breaker on its own: a caller records Scorer latencies and asks
\* allow() in any order while time passes.
MaxBreakerClock == 2 * OPEN_SECONDS + 4
ClockSteps == {OPEN_SECONDS \div 2, OPEN_SECONDS \div 2 + 1}

\* breaker.record(latency)
breaker_record(latency) ==
    /\ Len(latency_log) < MaxRecords
    /\ breaker' = record(breaker, latency, clock)
    /\ latency_log' = Append(latency_log, latency)
    /\ UNCHANGED <<clock, allowed, agentVars, dedupVars, fifoVars>>
    /\ UNCHANGED <<brokerVars, idVars, reqVars, workerVars, consumerVars>>
    /\ UNCHANGED obsVars

\* breaker.allow()
breaker_allow ==
    /\ Len(allowed) < MaxAllows
    /\ breaker' = allow(breaker, clock).breaker
    /\ allowed' = Append(allowed, allow(breaker, clock).ret)
    /\ UNCHANGED <<clock, latency_log, agentVars, dedupVars, fifoVars>>
    /\ UNCHANGED <<brokerVars, idVars, reqVars, workerVars, consumerVars>>
    /\ UNCHANGED obsVars

\* time.time() moves on between two calls
clock_tick(dt) ==
    /\ clock + dt <= MaxBreakerClock
    /\ clock' = clock + dt
    /\ UNCHANGED <<breaker, allowed, latency_log, agentVars, dedupVars, fifoVars>>
    /\ UNCHANGED <<brokerVars, idVars, reqVars, workerVars, consumerVars>>
    /\ UNCHANGED obsVars

NextBreaker ==
    \/ \E latency \in ScorerLatencies : breaker_record(latency)
    \/ breaker_allow
    \/ \E dt \in ClockSteps : clock_tick(dt)
SpecBreaker == Init /\ [][NextBreaker]_vars

\* The agent router on its own: select_agent(category) is called again and
\* again. It reads the registry and returns best_agent; it writes no load.
select_agent_call(category) ==
    /\ Len(selected) < MaxSelections
    /\ selection' = [category |-> category, agent |-> select_agent(agents, category)]
    /\ selected' = Append(selected, select_agent(agents, category))
    /\ UNCHANGED <<agents, breakerVars, dedupVars, fifoVars>>
    /\ UNCHANGED <<brokerVars, idVars, reqVars, workerVars, consumerVars>>
    /\ UNCHANGED obsVars

NextRouter == \E category \in Categories : select_agent_call(category)
\* from the registry as shipped
SpecRouter == Init /\ [][NextRouter]_vars

\* from any registry state with the shipped agents and 0 <= load <= capacity
InitSelect ==
    /\ InitBroker
    /\ InitLib
    /\ agents \in [DOMAIN ShippedRegistry -> 0..Max(capacity("Agent1"), capacity("Agent2"))]
    /\ \A a \in DOMAIN agents : agents[a] <= capacity(a)
SpecSelect == InitSelect /\ [][NextRouter]_vars

\* The dedup window on its own: is_flash_flood is called again and again with
\* one of the texts; datetime.utcnow() has not moved since the previous call,
\* or has moved by exactly the window length.
MaxDedupClock == 2 * WINDOW_SECONDS
DedupSteps == {0, WINDOW_SECONDS}

is_flash_flood_call(text, dt) ==
    /\ Len(dedup_log) < MaxDedupCalls
    /\ clock + dt <= MaxDedupClock
    /\ LET now == clock + dt
           r == is_flash_flood(recent_tickets, Len(dedup_log) + 1, text, now)
       IN  /\ clock' = now
           /\ recent_tickets' = r.window
           /\ dedup_log' = Append(dedup_log,
                  [id |-> Len(dedup_log) + 1, embedding |-> encode(text), time |-> now, flood |-> r.flood])
    /\ UNCHANGED <<breaker, allowed, latency_log, agentVars, fifoVars>>
    /\ UNCHANGED <<brokerVars, idVars, reqVars, workerVars, consumerVars>>
    /\ UNCHANGED obsVars

NextDedup == \E text \in Texts, dt \in DedupSteps : is_flash_flood_call(text, dt)
SpecDedup == Init /\ [][NextDedup]_vars

\* The queue on its own: producers call enqueue_sync / enqueue_async and one
\* consumer calls dequeue_sync, in any order.
QueueMessages == {[ticket_id |-> t, text |-> FloodText] : t \in 1..(NumSuppliedIds + 1)}

\* enqueue_sync(payload) / enqueue_async(payload): LPUSH
enqueue_call(m) ==
    /\ Len(enq_log) < MaxEnqueues
    /\ queue' = lpush(queue, m)
    /\ enq_log' = Append(enq_log, m)
    /\ UNCHANGED <<deq_log, breakerVars, agentVars, dedupVars>>
    /\ UNCHANGED <<status, all_ids, ready, submit_lock, processing_lock, notified>>
    /\ UNCHANGED <<idVars, reqVars, workerVars, consumerVars>>
    /\ UNCHANGED obsVars

\* dequeue_sync(timeout): BRPOP returns the right end, or None after the
\* timeout when the list stayed empty
dequeue_call ==
    /\ Len(deq_log) < MaxDequeues
    /\ IF queue # <<>>
       THEN /\ deq_log' = Append(deq_log, brpop_value(queue))
            /\ queue' = brpop_rest(queue)
       ELSE /\ deq_log' = Append(deq_log, NoMsg)
            /\ queue' = queue
    /\ UNCHANGED <<enq_log, breakerVars, agentVars, dedupVars>>
    /\ UNCHANGED <<status, all_ids, ready, submit_lock, processing_lock, notified>>
    /\ UNCHANGED <<idVars, reqVars, workerVars, consumerVars>>
    /\ UNCHANGED obsVars

NextQueue ==
    \/ \E m \in QueueMessages : enqueue_call(m)
    \/ dequeue_call
SpecQueue == Init /\ [][NextQueue]_vars

\* concurrent clients racing for the submit lock
SpecIngest == Init /\ [][Ingest]_vars

\* no worker is in process_ticket for ticket t
NotInProcess(t) == \A w \in Workers : wPc[w] = "idle" \/ wMsg[w].ticket_id # t

\* every ticket id the bounded runs can see
TicketIds == 1..(NumSuppliedIds + NumRequests)

\* the processing lock key of t reaches its TTL (SET ... ex=PROCESSING_LOCK_TTL)
\* and Redis deletes it; nothing else is written
processing_lock_expire(t) ==
    /\ t \in processing_lock
    /\ processing_lock' = processing_lock \ {t}
    /\ UNCHANGED <<status, queue, all_ids, ready, submit_lock, notified>>
    /\ UNCHANGED <<workerVars, reqVars, consumerVars, idVars>>
    /\ UNCHANGED libVars

\* Broker failure scenario: one client posts tickets without ticket ids; the
\* broker calls of a worker may raise; a lock key left behind by a failed
\* release expires. Every step of the code that is enabled is eventually
\* taken (the client's requests, the workers' main loops, Redis's expiry); a
\* raise is never forced.
fresh_acquire(r) ==
    /\ client_acquire(r)
    /\ reqTid'[r] \notin SuppliedIds
IngestFresh ==
    \E r \in Requests :
        \/ fresh_acquire(r)
        \/ create_ticket_set_status(r)
        \/ create_ticket_add_to_all_ids(r)
        \/ create_ticket_enqueue(r)
        \/ create_ticket_release(r)
\* one step of worker w in which no broker call raises
WorkerStep(w) ==
    \/ main_dequeue(w)
    \/ process_ticket_acquire(w)
    \/ process_ticket_set_processing(w)
    \/ process_ticket_set_completed(w)
    \/ process_ticket_add_to_ready(w)
    \/ process_ticket_release(w)
    \/ process_ticket_defensive(w)
    \/ main_log_exception(w)
\* one step of worker w in which a broker call raises
WorkerRaises(w) ==
    \/ process_ticket_raise(w)
    \/ process_ticket_defensive_raise(w)
    \/ process_ticket_release_raise(w)
stale_lock_expire(t) ==
    /\ NotInProcess(t)
    /\ processing_lock_expire(t)
LockExpiry == \E t \in TicketIds : stale_lock_expire(t)

NextRequeue ==
    \/ IngestFresh
    \/ \E w \in Workers : WorkerStep(w)
    \/ \E w \in Workers : WorkerRaises(w)
    \/ LockExpiry
SpecRequeue ==
    /\ Init /\ [][NextRequeue]_vars
    /\ WF_vars(IngestFresh)
    /\ \A w \in Workers : WF_vars(WorkerStep(w))
    /\ WF_vars(LockExpiry)

\* Slow worker scenario: one client (which may post a ticket_id again), the
\* workers, a fault-free broker, and a process_ticket call may take longer
\* than PROCESSING_LOCK_TTL, so that its lock key expires while it runs.
\* lock_owner records whose SET NX created the key that is there now.
owned_acquire(w) ==
    /\ acquire(w)
    /\ lock_owner' = IF acquire_processing_lock(wMsg[w].ticket_id)
                     THEN set_key(lock_owner, wMsg[w].ticket_id, w)
                     ELSE lock_owner
    /\ UNCHANGED <<breakerVars, agentVars, dedupVars, fifoVars, scorer_log>>

NextExpire ==
    \/ IngestSeq
    \/ \E w \in Workers :
          \/ main_dequeue(w)
          \/ owned_acquire(w)
          \/ process_ticket_set_processing(w)
          \/ process_ticket_set_completed(w)
          \/ process_ticket_add_to_ready(w)
          \/ process_ticket_release(w)
    \/ \E t \in TicketIds : processing_lock_expire(t)
SpecExpire == Init /\ [][NextExpire]_vars

\* one client and the workers, fault-free broker; every request that was
\* started runs to its return and every worker's main loop keeps running
SpecLive ==
    /\ Init /\ [][NextLock]_vars
    /\ WF_vars(IngestSeq)
    /\ \A w \in Workers : WF_vars(WorkerStep(w))

StatusValues == {"pending", "processing", "completed"}

TypeOK ==
    /\ \A t \in DOMAIN status : status[t].status \in StatusValues
    /\ all_ids \subseteq DOMAIN status
    /\ DOMAIN ready \subseteq DOMAIN status
    /\ processing_lock \subseteq DOMAIN status
    /\ submit_lock \in BOOLEAN
    /\ \A r \in Requests : attempt[r] \in 0..max_retries

(* ======================= properties ======================= *)

\* the lifecycle of section 3: pending -> processing -> completed | master_incident
StatusOrder ==
    { <<NoVal, "pending">>, <<"pending", "processing">>,
      <<"processing", "completed">>, <<"processing", "master_incident">> }

\* C1: the status of every ticket only moves along pending -> processing ->
\* completed | master_incident: each change of a status record's status field is
\* one edge of the lifecycle (never backwards, never skipping processing, never
\* out of a terminal status).
C1_StatusLifecycle ==
    [][\A t \in DOMAIN status' :
          get_status(t)'.status # get_status(t).status
              => <<get_status(t).status, get_status(t)'.status>> \in StatusOrder]_vars

\* worker w is between a granted acquire_processing_lock and its release
HoldsProcessingLock(w) ==
    wPc[w] \in {"set_processing", "set_completed", "add_to_ready", "defensive", "release",
               "release_raising"}

\* C2: at every instant at most one worker is between a granted
\* acquire_processing_lock(ticket_id) and its release for the same ticket_id,
\* and the lock key exists while it is held.
C2_SingleFlight ==
    \A w1 \in Workers :
        HoldsProcessingLock(w1) =>
            /\ wMsg[w1].ticket_id \in processing_lock
            /\ \A w2 \in Workers \ {w1} :
                  HoldsProcessingLock(w2) => wMsg[w2].ticket_id # wMsg[w1].ticket_id

\* two workers dequeued messages of the same ticket: one holds the lock, the
\* other is at its acquire
C2_Witness ==
    \E w1, w2 \in Workers :
        /\ w1 # w2
        /\ HoldsProcessingLock(w1)
        /\ wPc[w2] = "acquire"
        /\ wMsg[w2].ticket_id = wMsg[w1].ticket_id

\* pop_next_ready_sync has returned ticket t to consumer c
PopReturned(c, t) == cPc[c] \in {"get_status", "done"} /\ cTid[c] = t
\* messages of ticket t put in the queue so far; every ready_add of t needs one
Enqueued(t) == {r \in Requests : reqTid[r] = t /\ effects[r].enq > 0}

\* C3: an entry put in the ReadyIndex by one ready_add is returned to at most
\* one GET /tickets/next caller: the pops that returned a ticket never outnumber
\* the messages of that ticket that were ever enqueued (each ready_add consumes
\* one).
C3_PopReturnsEntryOnce ==
    \A t \in DOMAIN status :
        Cardinality({c \in Consumers : PopReturned(c, t)}) <= Cardinality(Enqueued(t))

\* C4: whenever a pop removes the id it read, that id's score is >= the score
\* of every member remaining in the ReadyIndex at that moment.
C4_PopReturnsMax ==
    [][\A c \in Consumers :
          (cPc[c] = "zrem" /\ cPc'[c] = "get_status" /\ cTid[c] \in DOMAIN ready)
              => \A u \in DOMAIN ready' : ready'[u] <= ready[cTid[c]]]_vars

\* C5: every member of the ReadyIndex has a status record whose status is
\* completed.
C5_ReadyOnlyCompleted ==
    \A t \in DOMAIN ready : get_status(t).status = "completed"

\* no pop has ever read ticket t
NeverPopped(t) == \A c \in Consumers : cTid[c] # t

\* C6: every ticket whose status is completed and that no pop has removed is a
\* member of the ReadyIndex with a score equal to the urgency_score of its
\* status record (stated once its process_ticket call has returned).
C6_CompletedInReady ==
    \A t \in DOMAIN status :
        (status[t].status = "completed" /\ NotInProcess(t) /\ NeverPopped(t))
            => t \in DOMAIN ready /\ ready[t] = status[t].urgency_score

\* C7: every message in the queue and every id in AllIds has a status record.
C7_NoDanglingMessage ==
    /\ \A i \in 1..Len(queue) : get_status(queue[i].ticket_id) # NoStatus
    /\ \A t \in all_ids : get_status(t) # NoStatus

\* a message is queued while another admission of the same ticket_id has
\* written its status and is about to enqueue
C7_Witness ==
    /\ Len(queue) >= 1
    /\ \E r \in Requests :
          /\ reqPc[r] = "enqueue"
          /\ reqTid[r] = queue[1].ticket_id

\* request r is between a granted acquire_submit_lock and its release
HoldsSubmitLock(r) == reqPc[r] \in {"set_status", "add_to_all_ids", "enqueue", "release"}

\* C8: at every instant at most one create_ticket request is between a granted
\* acquire_submit_lock and its release_submit_lock, and the lock key exists
\* while it is held.
C8_SubmitLockSerializes ==
    \A r1 \in Requests :
        HoldsSubmitLock(r1) =>
            /\ submit_lock
            /\ \A r2 \in Requests \ {r1} : ~HoldsSubmitLock(r2)

\* one request is admitting while another has been denied the lock
C8_Witness ==
    \E r1, r2 \in Requests :
        /\ HoldsSubmitLock(r1)
        /\ reqPc[r2] = "acquire"
        /\ attempt[r2] > 0

\* a step of request r
create_ticket(r) ==
    \/ create_ticket_acquire(r)
    \/ create_ticket_denied(r)
    \/ create_ticket_overload(r)
    \/ create_ticket_set_status(r)
    \/ create_ticket_add_to_all_ids(r)
    \/ create_ticket_enqueue(r)
    \/ create_ticket_release(r)

\* C9: a create_ticket request makes at most max_retries acquire attempts, can
\* always take its next step until it has returned, and returns either 202
\* after exactly one lock acquisition, one pending status write, one AllIds add
\* and one enqueue, or 503 after max_retries denials with none of them.
C9_AdmitOnceOrOverload ==
    \A r \in Requests :
        /\ attempt[r] + effects[r].lock <= max_retries
        /\ reqPc[r] # "done" => ENABLED create_ticket(r)
        /\ ~HoldsSubmitLock(r) /\ reqPc[r] # "done" => effects[r] = NoEffects
        /\ reqPc[r] = "done" =>
              \/ /\ outcome[r] = "202"
                 /\ effects[r] = [lock |-> 1, status |-> 1, ids |-> 1, enq |-> 1]
              \/ /\ outcome[r] = "503"
                 /\ attempt[r] = max_retries
                 /\ effects[r] = NoEffects

\* one request was admitted after a denial, another gave up with 503
C9_Witness ==
    \E r1, r2 \in Requests :
        /\ reqPc[r1] = "done" /\ outcome[r1] = "202"
        /\ reqPc[r2] = "done" /\ outcome[r2] = "503"

\* the k-th ticket of the flood scenario, and the second it is processed in
FloodId(k) == NumSuppliedIds + k
FloodTime(k) == 5 * k

\* recent_tickets after the worker's first k tickets, had each gone through
\* is_flash_flood, and what is_flash_flood says of the k-th
RECURSIVE FloodWindow(_)
FloodWindow(k) ==
    IF k = 0 THEN <<>>
    ELSE is_flash_flood(FloodWindow(k - 1), FloodId(k), FloodText, FloodTime(k)).window
FloodVerdict(k) ==
    is_flash_flood(FloodWindow(k - 1), FloodId(k), FloodText, FloodTime(k)).flood

\* C10: a ticket for which is_flash_flood returns true ends master_incident, is
\* not in the ReadyIndex and triggers no notification; of 12 mutually similar
\* tickets processed by one worker within 5 minutes the first 10 end completed
\* and the 11th and 12th master_incident.
C10_FloodEndsMasterIncident ==
    \A k \in 1..MaxFloodTickets :
        LET t == FloodId(k) IN
        (t \in DOMAIN status /\ status[t].status \in {"completed", "master_incident"}) =>
            IF FloodVerdict(k)
            THEN /\ status[t].status = "master_incident"
                 /\ t \notin DOMAIN ready
                 /\ t \notin notified
            ELSE status[t].status = "completed"

(* ---------------- C11 ---------------- *)
\* the breaker after the first k Scorer calls of the worker, had each call been
\* preceded by breaker.allow() and followed by breaker.record(latency); the
\* worker takes its k-th ticket at FloodTime(k)
RECURSIVE BreakerAfter(_)
BreakerAfter(k) ==
    IF k = 0 THEN NewBreaker
    ELSE record(allow(BreakerAfter(k - 1), FloodTime(k)).breaker, latency_log[k], FloodTime(k))

\* C11: the worker invokes the Scorer for a ticket only if breaker.allow()
\* returns true for it; after three consecutive Scorer calls slower than
\* 500 ms the fourth ticket is classified without the Scorer.
C11_OpenBreakerSkipsScorer ==
    \A k \in 1..Len(latency_log) : allow(BreakerAfter(k - 1), FloodTime(k)).ret

(* ---------------- C12 ---------------- *)
\* C12: a closed breaker opens in a step exactly when that step is a record()
\* and the last three recorded latencies are all above 500 ms; an allow() on
\* an open breaker returns true exactly when more than 60 s have passed since
\* last_failure_time, and then leaves the breaker half-open, otherwise open.
C12_BreakerTransitions ==
    [][LET n == Len(latency_log')
           recorded == n = Len(latency_log) + 1
           three_slow == n >= 3 /\ \A i \in (n - 2)..n : latency_log'[i] > LATENCY_LIMIT
           asked == Len(allowed') = Len(allowed) + 1
           ret == allowed'[Len(allowed')]
       IN  /\ breaker.state = "CLOSED" =>
                 (breaker'.state = "OPEN" <=> (recorded /\ three_slow))
           /\ (asked /\ breaker.state = "OPEN") =>
                 /\ ret = (clock - breaker.last_failure_time > OPEN_SECONDS)
                 /\ ret => breaker'.state = "HALF_OPEN"
                 /\ ~ret => breaker'.state = "OPEN"
      ]_vars

\* an open breaker denied a call and, later than 60 s after the last failure,
\* allowed one and went half-open
C12_Witness ==
    /\ breaker.state = "HALF_OPEN"
    /\ allowed = <<FALSE, TRUE>>

(* ---------------- C13 ---------------- *)
\* C13: every agent's load is at most its capacity, and the agent the last
\* select_agent call returned, if any, has load below its capacity.
C13_LoadWithinCapacity ==
    /\ \A a \in DOMAIN agents : agents[a] <= capacity(a)
    /\ selection.agent # NoAgent => agents[selection.agent] < capacity(selection.agent)

\* Agent1 is at capacity and a call for its best category returned Agent2
C13_Witness ==
    /\ agents["Agent1"] = capacity("Agent1")
    /\ selection = [category |-> "Technical", agent |-> "Agent2"]

(* ---------------- C14 ---------------- *)
\* how often select_agent has returned a
TimesSelected(a) == Cardinality({i \in 1..Len(selected) : selected[i] = a})

\* C14: over any sequence of selections an agent is returned at most
\* capacity times (each selection counting as one unit of its load).
C14_SelectedAtMostCapacity ==
    \A a \in DOMAIN agents : TimesSelected(a) <= capacity(a)

(* ---------------- C15 ---------------- *)
\* position of an agent in the registry's insertion order
AgentIndex(a) == CHOOSE i \in 1..Len(AgentNames) : AgentNames[i] = a

\* C15: the last select_agent call returned none iff every agent has
\* load >= capacity; otherwise it returned an agent with load < capacity whose
\* score is maximal among those, the first in insertion order among equals.
C15_SelectsBestEligible ==
    selection.category # NoVal =>
        LET r == selection.agent
            c == selection.category
            Eligible == {a \in DOMAIN agents : agents[a] < capacity(a)}
            sc(a) == agent_score(a, agents, c)
        IN  /\ r = NoAgent <=> Eligible = {}
            /\ r # NoAgent =>
                  /\ r \in Eligible
                  /\ \A b \in Eligible :
                        /\ sc(r).num * sc(b).den >= sc(b).num * sc(r).den
                        /\ sc(r).num * sc(b).den = sc(b).num * sc(r).den
                              => AgentIndex(r) <= AgentIndex(b)

\* both agents are eligible with the same score for Legal and the call
\* returned the first of them
C15_Witness ==
    /\ agents["Agent1"] = 1
    /\ agents["Agent2"] = 2
    /\ selection = [category |-> "Legal", agent |-> "Agent1"]

(* ---------------- C16 ---------------- *)
\* C16: on every completed status record, urgency_label is "high" exactly
\* when the urgency_score stored in the same record is >= 0.5.
C16_LabelMatchesStoredScore ==
    \A t \in DOMAIN status :
        get_status(t).status = "completed" =>
            (get_status(t).urgency_label = "high" <=> get_status(t).urgency_score >= HALF)

(* ---------------- C17 ---------------- *)
\* the earlier calls whose entry is at most 5 minutes older than call k and
\* similar to it
SimilarBefore(k) ==
    {i \in 1..(k - 1) :
        /\ dedup_log[i].time >= dedup_log[k].time - WINDOW_SECONDS
        /\ dot(dedup_log[i].embedding, dedup_log[k].embedding) > SIMILARITY_THRESHOLD}

\* C17: a call of is_flash_flood returned true iff at least 10 entries added
\* by earlier calls within the preceding 5 minutes are similar to its
\* candidate, and after every call the candidate is the newest window entry.
C17_FloodIffTenSimilarInWindow ==
    /\ \A k \in 1..Len(dedup_log) :
          dedup_log[k].flood <=> Cardinality(SimilarBefore(k)) >= FLOOD_COUNT
    /\ dedup_log # <<>> =>
          /\ recent_tickets # <<>>
          /\ recent_tickets[Len(recent_tickets)].id = Len(dedup_log)
          /\ recent_tickets[Len(recent_tickets)].time = dedup_log[Len(dedup_log)].time

\* a call returned true although the first entry, similar to it, had already
\* left the window
C17_Witness ==
    \E k \in 1..Len(dedup_log) :
        /\ dedup_log[k].flood
        /\ dedup_log[1].time < dedup_log[k].time - WINDOW_SECONDS
        /\ dedup_log[1].embedding = dedup_log[k].embedding

(* ---------------- C18 ---------------- *)
\* the messages among the first n results of dequeue_sync, in order
RECURSIVE Delivered(_, _)
Delivered(log, n) ==
    IF n = 0 THEN <<>>
    ELSE IF log[n] = NoMsg THEN Delivered(log, n - 1)
    ELSE Append(Delivered(log, n - 1), log[n])

\* C18: the messages dequeued so far are, in order, the first messages
\* enqueued, and a dequeue returns none only when the queue is empty.
C18_QueueIsFifo ==
    [][LET got == Delivered(deq_log', Len(deq_log'))
       IN  /\ Len(got) <= Len(enq_log')
           /\ got = SubSeq(enq_log', 1, Len(got))
           /\ (Len(deq_log') = Len(deq_log) + 1 /\ deq_log'[Len(deq_log')] = NoMsg)
                 => queue = <<>>
      ]_vars

\* two different messages were enqueued and dequeued, then a dequeue timed out
C18_Witness ==
    /\ Len(enq_log) >= 2
    /\ enq_log[1] # enq_log[2]
    /\ Len(deq_log) = 3
    /\ deq_log[1] = enq_log[1]
    /\ deq_log[2] = enq_log[2]
    /\ deq_log[3] = NoMsg

(* ---------------- C19 ---------------- *)
\* worker w leaves process_ticket in this step, having held the lock
ExitsHolding(w) == HoldsProcessingLock(w) /\ ~HoldsProcessingLock(w)'
\* worker w leaves the except block in this step
LeavesExcept(w) == wPc[w] = "defensive" /\ wPc'[w] # "defensive"

LockDenied(w) == wPc[w] = "acquire" /\ wPc'[w] = "idle"

\* C20: a process_ticket whose acquire_processing_lock is denied returns
\* leaving the status records, the ReadyIndex, the queue, AllIds and the
\* processing lock of the other worker as they were.
C20_DeniedLeavesBrokerUnchanged ==
    [][\A w \in Workers :
          LockDenied(w) =>
              /\ status' = status
              /\ ready' = ready
              /\ queue' = queue
              /\ all_ids' = all_ids
              /\ processing_lock' = processing_lock
              /\ wMsg[w].ticket_id \in processing_lock'
      ]_vars

\* every request admitted the same ticket_id, one worker is processing it and
\* has not completed it before, the queue is empty and another worker is back
\* in the main loop: that worker dequeued the duplicate and was denied
C20_Witness ==
    /\ queue = <<>>
    /\ \E t \in processing_lock :
          /\ t \notin ReadyMembers
          /\ \A r \in Requests : reqPc[r] = "done" /\ outcome[r] = "202" /\ reqTid[r] = t
    /\ \E w \in Workers : wPc[w] = "idle"

(* ---------------- C21 ---------------- *)
\* what the baseline gives for a text: the completed record and the score
BaselineRecord(text) == CompletedRecord(classify_category(text), get_urgency(text) * ONE)

\* C21: a ticket whose Scorer call raised has a completed record with the
\* baseline's category and a score of 0 or 1, and is in the ReadyIndex with
\* that score as soon as its worker has passed add_to_ready_queue_sync; a
\* ticket whose Scorer call answered keeps the Scorer's category and score; the
\* Scorer is called for every ticket that gets completed.
C21_ScorerExceptionFallsBack ==
    /\ \A k \in 1..Len(scorer_log) :
          LET e == scorer_log[k] IN
          e.raised =>
              /\ get_status(e.ticket_id) = BaselineRecord(e.text)
              /\ get_status(e.ticket_id).urgency_score \in {0, ONE}
              /\ \/ wPc[1] = "add_to_ready" /\ wMsg[1].ticket_id = e.ticket_id
                 \/ /\ e.ticket_id \in ReadyMembers
                    /\ ready[e.ticket_id] = get_urgency(e.text) * ONE
    /\ \A k \in 1..Len(scorer_log) :
          LET e == scorer_log[k] IN
          ~e.raised =>
              \E o \in ScorerOutcomes :
                  /\ ~o.raise
                  /\ get_status(e.ticket_id) = CompletedRecord(o.category, Clamp(o.s))
    /\ \A t \in DOMAIN status :
          get_status(t).status = "completed" =>
              \E k \in 1..Len(scorer_log) : scorer_log[k].ticket_id = t

\* the Scorer raised for a ticket with Legal keywords, which is in the
\* ReadyIndex as Legal / 0, and answered for the next ticket, completed with
\* the Scorer's own score
C21_Witness ==
    /\ Len(scorer_log) >= 2
    /\ scorer_log[1].raised /\ scorer_log[1].text = LegalInvoiceText
    /\ scorer_log[1].ticket_id \in ReadyMembers
    /\ get_status(scorer_log[1].ticket_id).category = "Legal"
    /\ ~scorer_log[2].raised
    /\ get_status(scorer_log[2].ticket_id).urgency_score \in {round4(sc) : sc \in ScorerScores}

(* ---------------- C22 ---------------- *)
\* C22: an allow() on a half-open breaker returns true and leaves it as it
\* is; a record() on a half-open breaker with latency <= 500 closes it with
\* failure_count 0; one with latency > 500 adds one to failure_count and
\* leaves the breaker open exactly when the new failure_count is 3 or more,
\* half-open otherwise; a closed breaker always has failure_count < 3.
C22_HalfOpenTransitions ==
    [][LET n == Len(latency_log')
           recorded == n = Len(latency_log) + 1
           latency == latency_log'[n]
           asked == Len(allowed') = Len(allowed) + 1
           ret == allowed'[Len(allowed')]
       IN  /\ (asked /\ breaker.state = "HALF_OPEN") =>
                 /\ ret
                 /\ breaker' = breaker
           /\ (recorded /\ breaker.state = "HALF_OPEN" /\ latency <= LATENCY_LIMIT) =>
                 /\ breaker'.state = "CLOSED"
                 /\ breaker'.failure_count = 0
           /\ (recorded /\ breaker.state = "HALF_OPEN" /\ latency > LATENCY_LIMIT) =>
                 /\ breaker'.failure_count = breaker.failure_count + 1
                 /\ breaker'.state = "OPEN" <=> breaker'.failure_count >= FAILURE_LIMIT
                 /\ breaker'.state \in {"OPEN", "HALF_OPEN"}
           /\ breaker.state = "CLOSED" => breaker.failure_count < FAILURE_LIMIT
           /\ breaker'.state = "CLOSED" => breaker'.failure_count < FAILURE_LIMIT
      ]_vars

\* three slow calls opened the breaker, an allow() after more than 60 s
\* returned true and the record() of a fast call closed it again
C22_Witness ==
    /\ breaker = [NewBreaker EXCEPT !.last_failure_time = breaker.last_failure_time]
    /\ Len(latency_log) = FAILURE_LIMIT + 1
    /\ \A i \in 1..FAILURE_LIMIT : latency_log[i] > LATENCY_LIMIT
    /\ latency_log[FAILURE_LIMIT + 1] <= LATENCY_LIMIT
    /\ Len(allowed) >= 2
    /\ allowed[Len(allowed)] /\ allowed[Len(allowed) - 1]

(* ---------------- C23 ---------------- *)
\* C23: when a broker call of a worker has raised inside process_ticket for
\* a ticket (the worker is in the except block with that ticket's message),
\* the worker gets back to its main loop, and the ticket eventually has a
\* completed status record (its message being requeued and processed again
\* if the failed attempt wrote none).
C23_FailedTicketEventuallyTerminal ==
    \A w \in Workers : \A t \in TicketIds :
        (wPc[w] = "defensive" /\ wMsg[w].ticket_id = t)
            ~> (wPc[w] = "idle" /\ get_status(t).status = "completed")

(* ---------------- C24 ---------------- *)
\* the terminal status values
TerminalStatus == {"completed", "master_incident"}

\* C24: with a fault-free broker and workers that keep running, whenever a
\* ticket has a status record (create_ticket admitted it, possibly again
\* while it was being processed), its status is eventually completed or
\* master_incident.
C24_AdmittedEventuallyTerminal ==
    \A t \in TicketIds :
        (t \in DOMAIN status) ~> (get_status(t).status \in TerminalStatus)

(* ---------------- C25 ---------------- *)
\* worker w's release_processing_lock(t) deletes the lock key of t in this step
ReleaseDeletes(w, t) ==
    /\ wPc[w] = "release" /\ wPc'[w] = "idle"
    /\ wMsg[w].ticket_id = t
    /\ t \in processing_lock /\ t \notin processing_lock'

\* C25: a release_processing_lock(ticket_id) removes the lock key only when
\* the key that is there was created by the caller's own acquire, also after
\* the caller's key has expired and another worker has acquired the lock.
C25_ReleaseOnlyOwnLock ==
    [][\A w \in Workers : \A t \in TicketIds :
          ReleaseDeletes(w, t) => lock_owner[t] = w
      ]_vars

====
